---- MODULE Spec2Model ----
(***************************************************************************)
(* A model of the shell of WojciechMatuszewski/codecrafters-shell-rust.     *)
(*                                                                         *)
(* The repository holds several components that are modelled one by one,   *)
(* each with its own specification over the shared variables:              *)
(*   SpecTok    parse_args, the tokenizer           (src/src/command.rs)    *)
(*   SpecRedir  Redirection::new and Redirection::run                      *)
(*                                              (src/src/redirection.rs)   *)
(*   SpecShell  parse_input and Command::run        (src/src/command.rs)    *)
(*   SpecCd     the cd builtin on every short path  (src/src/command.rs)    *)
(*   SpecMain   main, the read-eval loop            (src/src/main.rs)       *)
(*                                                                         *)
(* A piece of text is a sequence of one-character strings (the tokenizer)   *)
(* or a sequence of text pieces (the engine), so that copying, joining and  *)
(* formatting are sequence operations.                                     *)
(***************************************************************************)
EXTENDS Integers, Sequences, FiniteSets, TLC

None == "None"

(***************************************************************************)
(* Bounds.                                                                 *)
(***************************************************************************)
\* longest input line given to parse_args, in characters
MaxLen == 6
\* longest argument vector given to Redirection::new
MaxRedirArgs == 2
\* most calls of Redirection::run on one Redirection
MaxRuns == 2
\* most words of a command line given to parse_input
MaxTokens == 4
\* most lines on the standard input of main
MaxLines == 2
\* longest path given to cd
MaxPathLen == 3

(***************************************************************************)
(* The characters parse_args tells apart (command.rs:447-508): the single  *)
(* quote, the backslash, the double quote, the space, and every other      *)
(* character, of which "$" is also looked at after a backslash (468) and    *)
(* "a" is not.                                                             *)
(***************************************************************************)
SQ == "'"
BS == "\\"
DQ == "\""
SP == " "
DOLLAR == "$"
Chars == {SQ, BS, DQ, SP, DOLLAR, "a"}

RECURSIVE SeqsUpTo(_, _)
SeqsUpTo(S, n) ==
    IF n = 0 THEN {<<>>}
    ELSE LET shorter == SeqsUpTo(S, n - 1)
         IN  shorter \cup {Append(s, x) : s \in {t \in shorter : Len(t) = n - 1}, x \in S}

VARIABLES
    \* parse_args (command.rs:431-514)
    args,                  \* the input line
    index,                 \* position of current_char (1-based)
    current_arg,           \* the token being accumulated
    parsed_args,           \* the completed tokens
    inside_single_quotes,  \* flag
    inside_double_quotes,  \* flag
    returned,              \* TRUE once parse_args has returned
    \* the file system: path -> [exists, content]
    files,
    \* Redirection (redirection.rs)
    redirection_args,      \* the argument of Redirection::new
    redirection,           \* its result: Ok(Redirection) or Err
    command_output,        \* the argument of the last Redirection::run
    runs,                  \* calls of Redirection::run made so far
    last_run,              \* result of the last one: "none", "ok" or "err"
    \* parse_input and Command::run (command.rs)
    input,                 \* the input line
    command,               \* the result of parse_input: Ok(Command) or Err
    stage,                 \* "parse", "run", "done", or "exited" (process::exit)
    output,                \* Command::run: its local output, an Option<String>
    run_result,            \* what Command::run returned: "none", "ok" or "err"
    env,                   \* the environment values the command read
    process,               \* what the external process did, if one was run
    cwd,                   \* the current working directory
    exit_code,             \* the code given to process::exit
    \* main (main.rs)
    stdin,                 \* the lines not read yet
    at_eof,                \* TRUE once a read has met the end of the input
    pc,                    \* "prompt", "read", "eval"; "exited", "failed", "panicked"
    \* the Prompter's writer
    console

tokVars == <<args, index, current_arg, parsed_args,
             inside_single_quotes, inside_double_quotes, returned>>

redirVars == <<redirection_args, redirection, command_output, runs, last_run>>

shellVars == <<input, command, stage, output, run_result, env, process, cwd, exit_code>>

mainVars == <<stdin, at_eof, pc>>

vars == <<tokVars, files, redirVars, shellVars, mainVars, console>>

(***************************************************************************)
(* Values.  An optional value is <<>> (None) or <<v>> (Some(v)); a result  *)
(* is a record with the field ok.                                          *)
(***************************************************************************)
Some(v) == <<v>>
Nothing == <<>>
Err(msg) == [ok |-> FALSE, err |-> msg]

\* words of the command line, as the tokenizer returns them
W_gt == <<">">>
W_1gt == <<"1", ">">>
W_gtgt == <<">", ">">>
W_1gtgt == <<"1", ">", ">">>
W_2gt == <<"2", ">">>
W_2gtgt == <<"2", ">", ">">>
W_gtgtgt == <<">", ">", ">">>
W_f == <<"f">>
W_g == <<"g">>
W_2 == <<"2">>
W_exit == <<"e", "x", "i", "t">>
W_echo == <<"e", "c", "h", "o">>
W_type == <<"t", "y", "p", "e">>
W_pwd == <<"p", "w", "d">>
W_cd == <<"c", "d">>
W_ls == <<"l", "s">>
W_zz == <<"z", "z">>
W_tilde == <<"~">>
\* the word " echo", written in single quotes on the line
Q_echo == <<SQ, SP, "e", "c", "h", "o", SQ>>

\* the six operators (redirection.rs:28-31)
RedirectionOps == {W_gt, W_1gt, W_gtgt, W_1gtgt, W_2gt, W_2gtgt}

\* the words Redirection::new is tried on
RedirWords == RedirectionOps \cup {W_gtgtgt, W_2, W_f, W_g}

\* the words command lines are made of
ShellWords ==
    {W_exit, W_echo, W_type, W_pwd, W_cd, W_ls, W_zz, Q_echo, W_f, W_2, W_tilde}
        \cup RedirectionOps

\* the paths of the file system: every word can be the target of a redirection
Paths == RedirWords \cup ShellWords

\* a file that does not exist, and one holding text
NoFile == [exists |-> FALSE, content |-> <<>>]
FileOf(text) == [exists |-> TRUE, content |-> text]

\* the file system before the shell touches it: f holds "p", nothing else exists
FilesStart == [p \in Paths |-> IF p = W_f THEN FileOf(<<"p">>) ELSE NoFile]

FilesIdle == files = FilesStart

ShellIdle ==
    /\ input = <<>> /\ command = Err("idle") /\ stage = "idle"
    /\ output = Nothing /\ run_result = "none"
    /\ env = [path |-> Nothing, home |-> Nothing, cwd_ok |-> TRUE]
    /\ process = Nothing /\ cwd = <<"/">> /\ exit_code = 0

MainIdle == stdin = <<>> /\ at_eof = FALSE /\ pc = "idle"

ConsoleIdle == console = <<>>

RedirIdle ==
    /\ redirection_args = <<>> /\ redirection = Err("idle")
    /\ command_output = [stdout |-> Nothing, stderr |-> Nothing]
    /\ runs = 0 /\ last_run = "none"

(***************************************************************************)
(* parse_args (command.rs:431-514).  The loop state is a record; each arm  *)
(* of the match on current_char is an operator from the state before the   *)
(* iteration to the state after it.                                        *)
(***************************************************************************)
PrevChar(s, i) == IF i > 1 THEN s[i - 1] ELSE None
NextChar(s, i) == IF i + 1 <= Len(s) THEN s[i + 1] ELSE None

\* command.rs:432-436
ScanStart ==
    [current_arg |-> <<>>, parsed_args |-> <<>>,
     inside_single_quotes |-> FALSE, inside_double_quotes |-> FALSE]

Push(st, c) == [st EXCEPT !.current_arg = Append(st.current_arg, c)]

\* '\'' arm, command.rs:448-457
SingleQuoteArm(s, i, st) ==
    IF PrevChar(s, i) = BS THEN Push(st, s[i])
    ELSE IF st.inside_double_quotes THEN Push(st, s[i])
    ELSE [st EXCEPT !.inside_single_quotes = ~st.inside_single_quotes]

\* '\\' arm, command.rs:458-478
BackslashArm(s, i, st) ==
    LET st1 == IF st.inside_single_quotes THEN Push(st, s[i]) ELSE st
    IN  IF st1.inside_double_quotes
          THEN IF NextChar(s, i) = DQ THEN st1
               ELSE IF NextChar(s, i) = DOLLAR THEN st1
               ELSE IF PrevChar(s, i) = BS THEN st1
               ELSE Push(st1, s[i])
          ELSE st1

\* DoubleQuoteArm with the inside_single_quotes test of command.rs:487 left out
DoubleQuoteArmIgnoresSingle(s, i, st) ==
    IF st.inside_double_quotes /\ NextChar(s, i) = None THEN st
    ELSE IF PrevChar(s, i) = BS THEN Push(st, s[i])
    ELSE [st EXCEPT !.inside_double_quotes = ~st.inside_double_quotes]

\* '"' arm, command.rs:479-492
DoubleQuoteArm(s, i, st) ==
    IF st.inside_double_quotes /\ NextChar(s, i) = None THEN st
    ELSE IF PrevChar(s, i) = BS THEN Push(st, s[i])
    ELSE IF st.inside_single_quotes THEN Push(st, s[i])
    ELSE [st EXCEPT !.inside_double_quotes = ~st.inside_double_quotes]

\* SpaceArm with the is_empty test of command.rs:501 left out
SpaceArmPushesEmpty(s, i, st) ==
    IF st.inside_single_quotes THEN Push(st, s[i])
    ELSE IF st.inside_double_quotes THEN Push(st, s[i])
    ELSE IF PrevChar(s, i) = BS THEN Push(st, s[i])
    ELSE [st EXCEPT !.parsed_args = Append(st.parsed_args, st.current_arg),
                    !.current_arg = <<>>]

\* SpaceArm with the clear() of command.rs:503 forgotten
SpaceArmKeepsArg(s, i, st) ==
    IF st.inside_single_quotes THEN Push(st, s[i])
    ELSE IF st.inside_double_quotes THEN Push(st, s[i])
    ELSE IF PrevChar(s, i) = BS THEN Push(st, s[i])
    ELSE IF st.current_arg # <<>>
           THEN [st EXCEPT !.parsed_args = Append(st.parsed_args, st.current_arg)]
    ELSE st

\* ' ' arm, command.rs:493-505
SpaceArm(s, i, st) ==
    IF st.inside_single_quotes THEN Push(st, s[i])
    ELSE IF st.inside_double_quotes THEN Push(st, s[i])
    ELSE IF PrevChar(s, i) = BS THEN Push(st, s[i])
    ELSE IF st.current_arg # <<>>
           THEN [st EXCEPT !.parsed_args = Append(st.parsed_args, st.current_arg),
                           !.current_arg = <<>>]
    ELSE st

\* _ arm, command.rs:506-508
OtherArm(s, i, st) == Push(st, s[i])

\* one iteration of the loop, command.rs:438-510
ScanChar(s, i, st) ==
    CASE s[i] = SQ -> SingleQuoteArm(s, i, st)
      [] s[i] = BS -> BackslashArm(s, i, st)
      [] s[i] = DQ -> DoubleQuoteArm(s, i, st)
      [] s[i] = SP -> SpaceArm(s, i, st)
      [] OTHER -> OtherArm(s, i, st)

RECURSIVE ScanFrom(_, _, _)
ScanFrom(s, i, st) ==
    IF i > Len(s) THEN st ELSE ScanFrom(s, i + 1, ScanChar(s, i, st))

\* the whole function, as its callers use it
parse_args(s) ==
    LET st == ScanFrom(s, 1, ScanStart)
    IN  Append(st.parsed_args, st.current_arg)

(***************************************************************************)
(* SpecTok: parse_args run one iteration at a time on every line of up to  *)
(* MaxLen characters.                                                      *)
(***************************************************************************)
current_char == args[index]
prev_char == PrevChar(args, index)
next_char == NextChar(args, index)

ScanState ==
    [current_arg |-> current_arg, parsed_args |-> parsed_args,
     inside_single_quotes |-> inside_single_quotes,
     inside_double_quotes |-> inside_double_quotes]

InLoop == ~returned /\ index <= Len(args)

\* the loop goes to its next iteration with state st
Iterate(st) ==
    /\ current_arg' = st.current_arg
    /\ parsed_args' = st.parsed_args
    /\ inside_single_quotes' = st.inside_single_quotes
    /\ inside_double_quotes' = st.inside_double_quotes
    /\ index' = index + 1
    /\ UNCHANGED <<args, returned>>
    /\ UNCHANGED <<files, redirVars, shellVars, mainVars, console>>

TokIdle ==
    /\ args = <<>> /\ index = 0 /\ current_arg = <<>> /\ parsed_args = <<>>
    /\ inside_single_quotes = FALSE /\ inside_double_quotes = FALSE
    /\ returned = TRUE

InitTok ==
    /\ args \in SeqsUpTo(Chars, MaxLen)
    /\ index = 1
    /\ current_arg = ScanStart.current_arg
    /\ parsed_args = ScanStart.parsed_args
    /\ inside_single_quotes = ScanStart.inside_single_quotes
    /\ inside_double_quotes = ScanStart.inside_double_quotes
    /\ returned = FALSE
    /\ FilesIdle /\ RedirIdle /\ ShellIdle /\ MainIdle /\ ConsoleIdle

ArmSingleQuote ==
    InLoop /\ current_char = SQ /\ Iterate(SingleQuoteArm(args, index, ScanState))

ArmBackslash ==
    InLoop /\ current_char = BS /\ Iterate(BackslashArm(args, index, ScanState))

ArmDoubleQuote ==
    InLoop /\ current_char = DQ /\ Iterate(DoubleQuoteArm(args, index, ScanState))

ArmSpace ==
    InLoop /\ current_char = SP /\ Iterate(SpaceArm(args, index, ScanState))

ArmOther ==
    /\ InLoop /\ current_char \notin {SQ, BS, DQ, SP}
    /\ Iterate(OtherArm(args, index, ScanState))

\* the return with the last token pushed only when it is not empty
ParseArgsReturnSkipsEmpty ==
    /\ ~returned /\ index > Len(args)
    /\ parsed_args' = IF current_arg # <<>> THEN Append(parsed_args, current_arg)
                      ELSE parsed_args
    /\ returned' = TRUE
    /\ UNCHANGED <<args, index, current_arg, inside_single_quotes, inside_double_quotes>>
    /\ UNCHANGED <<files, redirVars, shellVars, mainVars, console>>

\* after the loop, command.rs:512-513
ParseArgsReturn ==
    /\ ~returned /\ index > Len(args)
    /\ parsed_args' = Append(parsed_args, current_arg)
    /\ returned' = TRUE
    /\ UNCHANGED <<args, index, current_arg, inside_single_quotes, inside_double_quotes>>
    /\ UNCHANGED <<files, redirVars, shellVars, mainVars, console>>

NextTok ==
    \/ ArmSingleQuote
    \/ ArmBackslash
    \/ ArmDoubleQuote
    \/ ArmSpace
    \/ ArmOther
    \/ ParseArgsReturn

SpecTok == InitTok /\ [][NextTok]_vars

(***************************************************************************)
(* Redirection (redirection.rs).                                           *)
(***************************************************************************)
STDOUT_OVERRIDE == {W_gt, W_1gt}
STDOUT_APPEND == {W_gtgt, W_1gtgt}
STDERR_OVERRIDE == {W_2gt}
STDERR_APPEND == {W_2gtgt}

Source(stream, mode) == [stream |-> stream, mode |-> mode]

\* OutputSource with ">>" and "1>>" read as Override
OutputSourceAppendLost(raw_source) ==
    IF raw_source \in STDOUT_OVERRIDE THEN Some(Source("Stdout", "Override"))
    ELSE IF raw_source \in STDOUT_APPEND THEN Some(Source("Stdout", "Override"))
    ELSE IF raw_source \in STDERR_OVERRIDE THEN Some(Source("Stderr", "Override"))
    ELSE IF raw_source \in STDERR_APPEND THEN Some(Source("Stderr", "Append"))
    ELSE Nothing

\* the match of redirection.rs:37-43
OutputSource(raw_source) ==
    IF raw_source \in STDOUT_OVERRIDE THEN Some(Source("Stdout", "Override"))
    ELSE IF raw_source \in STDOUT_APPEND THEN Some(Source("Stdout", "Append"))
    ELSE IF raw_source \in STDERR_OVERRIDE THEN Some(Source("Stderr", "Override"))
    ELSE IF raw_source \in STDERR_APPEND THEN Some(Source("Stderr", "Append"))
    ELSE Nothing

\* Redirection::new, redirection.rs:34-57
Redirection_new(a) ==
    LET output_source == IF Len(a) >= 1 THEN OutputSource(a[1]) ELSE Nothing
    IN  IF output_source = Nothing
          THEN Err("Failed to create redirection: could not parse the output source")
        ELSE IF Len(a) < 2
          THEN Err("Failed to create redirection: target not found")
        ELSE [ok |-> TRUE, source |-> output_source[1], target |-> a[2]]

\* unwrap_or("".to_string()), redirection.rs:71
UnwrapOrEmpty(opt) == IF opt = Nothing THEN <<>> ELSE opt[1]

\* the stream a Redirection names, redirection.rs:62-63, 91
NamedStream(self, out) ==
    IF self.source.stream = "Stdout" THEN out.stdout ELSE out.stderr

\* Redirection_run returning before the open when the named stream is None
Redirection_run_skips_absent(self, out, fs) ==
    LET text == UnwrapOrEmpty(NamedStream(self, out))
        held == IF fs[self.target].exists THEN fs[self.target].content ELSE <<>>
    IN  IF NamedStream(self, out) = Nothing THEN fs
        ELSE IF self.source.mode = "Append"
          THEN [fs EXCEPT ![self.target] = FileOf(held \o text)]
          ELSE [fs EXCEPT ![self.target] = FileOf(text)]

\* Redirection_run with the append(true) of redirection.rs:65 and 93 forgotten
Redirection_run_truncates(self, out, fs) ==
    [fs EXCEPT ![self.target] = FileOf(UnwrapOrEmpty(NamedStream(self, out)))]

\* Redirection::run when the open succeeds, redirection.rs:59-120: the file
\* system after it.  OpenOptions::append(true).create(true) keeps what the
\* file holds, File::create truncates it; both create a missing file.
Redirection_run(self, out, fs) ==
    LET text == UnwrapOrEmpty(NamedStream(self, out))
        held == IF fs[self.target].exists THEN fs[self.target].content ELSE <<>>
    IN  IF self.source.mode = "Append"
          THEN [fs EXCEPT ![self.target] = FileOf(held \o text)]
          ELSE [fs EXCEPT ![self.target] = FileOf(text)]

\* the CommandOutput values Redirection::run is tried on
CommandOutputs ==
    [stdout : {Nothing, Some(<<"o">>)}, stderr : {Nothing, Some(<<"e">>)}]

(***************************************************************************)
(* SpecRedir: Redirection::new on every argument vector of up to           *)
(* MaxRedirArgs words, then up to MaxRuns calls of run on what it made.    *)
(***************************************************************************)
InitRedir ==
    /\ redirection_args \in SeqsUpTo(RedirWords, MaxRedirArgs)
    /\ redirection = Err("not made")
    /\ command_output = [stdout |-> Nothing, stderr |-> Nothing]
    /\ runs = 0 /\ last_run = "none"
    /\ files \in {FilesStart, [FilesStart EXCEPT ![W_f] = NoFile]}
    /\ TokIdle /\ ShellIdle /\ MainIdle /\ ConsoleIdle

RedirectionNew ==
    /\ redirection = Err("not made")
    /\ redirection' = Redirection_new(redirection_args)
    /\ UNCHANGED <<redirection_args, command_output, runs, last_run, files, tokVars>>
    /\ UNCHANGED <<shellVars, mainVars, console>>

\* a call of run: the open of the target succeeds or fails with an I/O error,
\* which run returns (the ? of redirection.rs:65, 78, 93, 106)
RedirectionRun ==
    /\ redirection.ok /\ runs < MaxRuns
    /\ \E out \in CommandOutputs, opened \in BOOLEAN :
         /\ command_output' = out
         /\ IF opened
              THEN /\ files' = Redirection_run(redirection, out, files)
                   /\ last_run' = "ok"
              ELSE /\ UNCHANGED files
                   /\ last_run' = "err"
    /\ runs' = runs + 1
    /\ UNCHANGED <<redirection_args, redirection, tokVars, shellVars, mainVars, console>>

NextRedir ==
    \/ RedirectionNew
    \/ RedirectionRun

SpecRedir == InitRedir /\ [][NextRedir]_vars

(***************************************************************************)
(* Text operations of the standard library that the engine uses.           *)
(***************************************************************************)
\* [String]::join, command.rs:50
RECURSIVE JoinWith(_, _)
JoinWith(ws, sep) ==
    IF ws = <<>> THEN <<>>
    ELSE IF Len(ws) = 1 THEN ws[1]
    ELSE ws[1] \o sep \o JoinWith(Tail(ws), sep)

Whitespace == {SP, "\t", "\n", "\r"}

\* str::trim, command.rs:37
RECURSIVE TrimStart(_)
TrimStart(s) ==
    IF s # <<>> /\ Head(s) \in Whitespace THEN TrimStart(Tail(s)) ELSE s

RECURSIVE TrimEnd(_)
TrimEnd(s) ==
    IF s # <<>> /\ s[Len(s)] \in Whitespace
      THEN TrimEnd(SubSeq(s, 1, Len(s) - 1)) ELSE s

Trim(s) == TrimEnd(TrimStart(s))

Digits == <<"0", "1", "2", "3", "4", "5", "6", "7", "8", "9">>
IsDigit(c) == \E d \in 1..10 : Digits[d] = c
DigitValue(c) == (CHOOSE d \in 1..10 : Digits[d] = c) - 1

RECURSIVE DecimalValue(_)
DecimalValue(ds) ==
    IF ds = <<>> THEN 0
    ELSE 10 * DecimalValue(SubSeq(ds, 1, Len(ds) - 1)) + DigitValue(ds[Len(ds)])

I32Max == 2147483647
I32Min == (0 - I32Max) - 1

\* str::parse::<i32>, command.rs:44: an optional sign, then digits, in range
ParseI32(s) ==
    LET signed == s # <<>> /\ s[1] \in {"+", "-"}
        ds == IF signed THEN Tail(s) ELSE s
        v == IF s # <<>> /\ s[1] = "-" THEN 0 - DecimalValue(ds) ELSE DecimalValue(ds)
    IN  IF ds = <<>> \/ \E i \in 1..Len(ds) : ~IsDigit(ds[i])
          THEN Err("invalid digit found in string")
        ELSE IF v < I32Min \/ v > I32Max
          THEN Err("number too large to fit in target type")
        ELSE [ok |-> TRUE, value |-> v]

\* str::split on one character, executable.rs:44
RECURSIVE SplitOn(_, _)
SplitOn(s, c) ==
    IF \A i \in 1..Len(s) : s[i] # c THEN <<s>>
    ELSE LET i == CHOOSE j \in 1..Len(s) : s[j] = c /\ \A k \in 1..(j - 1) : s[k] # c
         IN  <<SubSeq(s, 1, i - 1)>> \o SplitOn(SubSeq(s, i + 1, Len(s)), c)

\* str::replace of a one-character pattern, command.rs:310: every occurrence
RECURSIVE Replace(_, _, _)
Replace(s, c, by) ==
    IF s = <<>> THEN <<>>
    ELSE (IF Head(s) = c THEN by ELSE <<Head(s)>>) \o Replace(Tail(s), c, by)

(***************************************************************************)
(* The environment of the process: the directories and executables that    *)
(* exist, the values PATH and the home directory can have, and what an     *)
(* external process can do.                                                *)
(***************************************************************************)
D_root == <<"/">>
D_a == <<"/", "a">>
D_b == <<"/", "b">>
D_h == <<"/", "h">>
Directories == {D_root, D_a, D_b, D_h}
Executables == {D_b \o <<"/">> \o W_ls, D_b \o <<"/">> \o W_cd}

PathValues == {Nothing, Some(D_a), Some(D_a \o <<":">> \o D_b)}
HomeValues == {Nothing, Some(D_h)}
Envs == [path : PathValues, home : HomeValues, cwd_ok : BOOLEAN]

\* a byte that is not valid UTF-8, and what from_utf8_lossy makes of it
BadByte == "\\xFF"
ReplacementChar == "U+FFFD"

\* an external process: it cannot be launched, or it runs and writes bytes
\* to its two streams
NotLaunched == [launched |-> FALSE, stdout |-> <<>>, stderr |-> <<>>]
ProcessOutcomes ==
    {NotLaunched} \cup
    [launched : {TRUE}, stdout : {<<>>, <<"o">>, <<BadByte>>}, stderr : {<<>>, <<"e">>}]

\* PathBuf from [dir, name], executable.rs:47: an absolute name replaces dir
PathJoin(dir, name) ==
    IF name # <<>> /\ Head(name) = "/" THEN name
    ELSE IF dir = <<>> THEN name
    ELSE IF dir[Len(dir)] = "/" THEN dir \o name
    ELSE dir \o <<"/">> \o name

\* Path::exists, executable.rs:48
PathExists(path) == path \in Directories \cup Executables

RECURSIVE FirstExisting(_, _)
FirstExisting(dirs, name) ==
    IF dirs = <<>> THEN Nothing
    ELSE IF PathExists(PathJoin(Head(dirs), name)) THEN Some(PathJoin(Head(dirs), name))
    ELSE FirstExisting(Tail(dirs), name)

\* ExecutablePathFinder::find_executable_path, executable.rs:43-58
find_executable_path(env_path, name) == FirstExisting(SplitOn(env_path, ":"), name)

\* std::process::Command::new(exec_name).output(), executable.rs:11 and
\* main.rs:146: the process is launched when PATH leads to an executable of
\* that name
CanLaunch(exec_name, path) ==
    /\ path # Nothing
    /\ find_executable_path(path[1], exec_name) # Nothing
    /\ find_executable_path(path[1], exec_name)[1] \in Executables

\* what running exec_name can do under the environment e
Launches(exec_name, e) ==
    {proc \in ProcessOutcomes : proc.launched <=> CanLaunch(exec_name, e.path)}

\* ExecutableRunner::execute, executable.rs:9-40: the streams kept apart, an
\* empty stream None, a failed launch reported on stderr
FromUtf8Lossy(bytes) ==
    [i \in 1..Len(bytes) |-> IF bytes[i] = BadByte THEN ReplacementChar ELSE bytes[i]]

ExecutableRunner_execute(exec_name, proc) ==
    IF proc.launched
      THEN [stdout |-> IF proc.stdout = <<>> THEN Nothing
                       ELSE Some(FromUtf8Lossy(proc.stdout)),
            stderr |-> IF proc.stderr = <<>> THEN Nothing
                       ELSE Some(FromUtf8Lossy(proc.stderr))]
      ELSE [stdout |-> Nothing,
            stderr |-> Some(exec_name \o <<": command not found\n">>)]

\* ExecRunner::execute, main.rs:140-152: the standard output alone, as a
\* String; a failed launch and invalid UTF-8 are errors
ExecRunner_execute(exec_name, proc) ==
    IF ~proc.launched THEN Err(<<"No such file or directory (os error 2)">>)
    ELSE IF \E i \in 1..Len(proc.stdout) : proc.stdout[i] = BadByte
      THEN Err(<<"invalid utf-8 sequence">>)
    ELSE [ok |-> TRUE, value |-> proc.stdout]

(***************************************************************************)
(* CommandKind, Redirection and Command of command.rs.                     *)
(***************************************************************************)
Builtin_Exit(code) == [tag |-> "Exit", code |-> code]
Builtin_Echo(text) == [tag |-> "Echo", input |-> text]
Builtin_Type_WellKnown(cmd) == [tag |-> "TypeWellKnown", cmd |-> cmd]
Builtin_Type_Unknown(cmd) == [tag |-> "TypeUnknown", cmd |-> cmd]
Builtin_Pwd == [tag |-> "Pwd"]
Builtin_Cd(path) == [tag |-> "Cd", path |-> path]
Kind_Unknown(cmd, rest) == [tag |-> "Unknown", cmd |-> cmd, args |-> rest]

Ok(v) == [ok |-> TRUE, value |-> v]

\* the built_ins of command.rs:56-61
built_ins == {W_exit, W_echo, W_type, W_pwd}

\* CommandKind::new, command.rs:33-93
CommandKind_new(a) ==
    IF a = <<>> THEN Err(<<"Failed to construct CommandKind">>)
    ELSE
      LET cmd == Trim(a[1])
          rest == Tail(a)
      IN  IF cmd = W_exit THEN
            IF rest = <<>> THEN Err(<<"Invalid arguments">>)
            ELSE IF ~ParseI32(rest[1]).ok THEN Err(<<ParseI32(rest[1]).err>>)
            ELSE Ok(Builtin_Exit(ParseI32(rest[1]).value))
          ELSE IF cmd = W_echo THEN Ok(Builtin_Echo(JoinWith(rest, <<SP>>)))
          ELSE IF cmd = W_type THEN
            IF rest = <<>> THEN Err(<<"Invalid arguments">>)
            ELSE IF rest[1] \in built_ins THEN Ok(Builtin_Type_WellKnown(rest[1]))
            ELSE Ok(Builtin_Type_Unknown(rest[1]))
          ELSE IF cmd = W_pwd THEN Ok(Builtin_Pwd)
          ELSE IF cmd = W_cd THEN
            IF rest = <<>> THEN Err(<<"Invalid arguments">>)
            ELSE Ok(Builtin_Cd(rest[1]))
          ELSE Ok(Kind_Unknown(cmd, rest))

\* Redirection::new of command.rs:115-124
command_Redirection_new(a) ==
    IF Len(a) < 2 THEN Err(<<"Failed to create redirection: target not found">>)
    ELSE Ok([source |-> Source("Stdout", "Override"), target |-> a[2]])

\* Redirection::execute of command.rs:126-131, when File::create succeeds
command_Redirection_execute(self, text, fs) ==
    [fs EXCEPT ![self.target] = FileOf(text)]

\* the position closure of command.rs:343
IsSplitArg(arg) == arg = W_gt \/ arg = W_1gt

\* Iterator::position, command.rs:343: 0 stands for None
SplitIndex(a) ==
    IF \E i \in 1..Len(a) : IsSplitArg(a[i])
      THEN CHOOSE i \in 1..Len(a) : IsSplitArg(a[i]) /\ \A j \in 1..(i - 1) : ~IsSplitArg(a[j])
      ELSE 0

MakeCommand(kind, redir) == Ok([kind |-> kind, redirection |-> redir])

\* parse_input, command.rs:340-373
parse_input(line) ==
    LET a == parse_args(line)
        i == SplitIndex(a)
    IN  IF i # 0 THEN
          LET cmd == CommandKind_new(SubSeq(a, 1, i - 1))
              redir == command_Redirection_new(SubSeq(a, i, Len(a)))
          IN  IF ~cmd.ok THEN cmd
              ELSE IF ~redir.ok THEN redir
              ELSE IF cmd.value.tag # "Unknown"
                THEN MakeCommand(cmd.value, Some(redir.value))
              ELSE LET new_cmd == CommandKind_new(a)
                   IN  IF ~new_cmd.ok THEN new_cmd
                       ELSE MakeCommand(new_cmd.value, Nothing)
        ELSE
          LET cmd == CommandKind_new(a)
          IN  IF ~cmd.ok THEN cmd ELSE MakeCommand(cmd.value, Nothing)

\* the path as the operating system resolves it: a run of separators is one
\* separator and a trailing one is dropped
RECURSIVE Collapse(_)
Collapse(path) ==
    IF Len(path) < 2 THEN path
    ELSE IF path[1] = "/" /\ path[2] = "/" THEN Collapse(Tail(path))
    ELSE <<path[1]>> \o Collapse(Tail(path))

Normalize(path) ==
    LET c == Collapse(path)
    IN  IF Len(c) > 1 /\ c[Len(c)] = "/" THEN SubSeq(c, 1, Len(c) - 1) ELSE c

\* std::env::set_current_dir, command.rs:312: what the path is
PathKind(path, dir, fs) ==
    LET full == IF path # <<>> /\ Head(path) = "/" THEN Normalize(path)
                ELSE IF path = <<>> THEN <<>>
                ELSE Normalize(PathJoin(dir, path))
    IN  IF full \in Directories THEN "directory"
        ELSE IF full \in Executables \/ (path \in Paths /\ fs[path].exists) THEN "file"
        ELSE "missing"

CdTarget(path, dir) ==
    IF path # <<>> /\ Head(path) = "/" THEN Normalize(path)
    ELSE Normalize(PathJoin(dir, path))

\* the outcome of a builtin: res is "ok" (Ok(text)), "err" (Err(text)) or
\* "exit" (process::exit(code)); dir is the working directory after it
BuiltinOutcome(res, text, dir, code) ==
    [res |-> res, text |-> text, cwd |-> dir, code |-> code]

\* run_builtin_command, command.rs:262-326
run_builtin_command(kind, e, dir, fs) ==
    IF kind.tag = "Exit" THEN BuiltinOutcome("exit", <<>>, dir, kind.code)
    ELSE IF kind.tag = "Echo" THEN BuiltinOutcome("ok", kind.input \o <<"\n">>, dir, 0)
    ELSE IF kind.tag = "TypeWellKnown"
      THEN BuiltinOutcome("ok", kind.cmd \o <<" is a shell builtin\n">>, dir, 0)
    ELSE IF kind.tag = "TypeUnknown" THEN
      IF e.path = Nothing
        THEN BuiltinOutcome("err", <<"environment variable not found">>, dir, 0)
      ELSE LET result == find_executable_path(e.path[1], kind.cmd)
           IN  IF result # Nothing
                 THEN BuiltinOutcome("ok", kind.cmd \o <<" is ">> \o result[1] \o <<"\n">>, dir, 0)
                 ELSE BuiltinOutcome("ok", kind.cmd \o <<": not found\n">>, dir, 0)
    ELSE IF kind.tag = "Pwd" THEN
      IF ~e.cwd_ok
        THEN BuiltinOutcome("err", <<"No such file or directory (os error 2)">>, dir, 0)
        ELSE BuiltinOutcome("ok", dir \o <<"\n">>, dir, 0)
    ELSE \* Cd
      IF e.home = Nothing
        THEN BuiltinOutcome("err", <<"Could not get the home directory">>, dir, 0)
      ELSE LET path == Replace(kind.path, "~", e.home[1])
           IN  IF PathKind(path, dir, fs) = "directory"
                 THEN BuiltinOutcome("ok", <<>>, CdTarget(path, dir), 0)
               ELSE IF PathKind(path, dir, fs) = "missing"
                 THEN BuiltinOutcome("ok",
                        <<"cd: ">> \o path \o <<": No such file or directory\n">>, dir, 0)
               ELSE BuiltinOutcome("err", <<"Unknown error">>, dir, 0)

\* run_unknown_command, command.rs:328-338.  It binds what the runner
\* returns as a String: the runner that returns one is ExecRunner::execute.
run_unknown_command(cmd, rest, proc) == ExecRunner_execute(cmd, proc)

\* the environment values a command reads
EnvRead(kind, e) ==
    [path |-> IF kind.tag \in {"TypeUnknown", "Unknown"} THEN e.path ELSE Nothing,
     home |-> IF kind.tag = "Cd" THEN e.home ELSE Nothing,
     cwd_ok |-> IF kind.tag = "Pwd" THEN e.cwd_ok ELSE TRUE]

(***************************************************************************)
(* SpecShell: every line of up to MaxTokens words is parsed by parse_input *)
(* and the Command, if there is one, is run by Command::run.               *)
(***************************************************************************)
ShellLines == {JoinWith(ws, <<SP>>) : ws \in SeqsUpTo(ShellWords, MaxTokens)}

InitShell ==
    /\ input \in ShellLines
    /\ command = Err("not parsed")
    /\ stage = "parse"
    /\ output = Nothing /\ run_result = "none"
    /\ env = [path |-> Nothing, home |-> Nothing, cwd_ok |-> TRUE]
    /\ process = Nothing
    /\ cwd = D_root
    /\ exit_code = 0
    /\ console = <<>>
    /\ files = FilesStart
    /\ TokIdle /\ RedirIdle /\ MainIdle

\* Command::from_str, command.rs:143-145
ParseInput ==
    /\ stage = "parse"
    /\ command' = parse_input(input)
    /\ stage' = IF parse_input(input).ok THEN "run" ELSE "done"
    /\ UNCHANGED <<input, output, run_result, env, process, cwd, exit_code,
                   console, files, tokVars, redirVars, mainVars>>

\* the delivery of command.rs:250-256; created tells whether File::create
\* succeeded.  out is the Option<String> of command.rs:231, shown the console
\* text written so far.
Deliver(out, shown, created) ==
    /\ output' = out
    /\ IF out = Nothing
         THEN /\ console' = shown /\ UNCHANGED files /\ run_result' = "ok"
       ELSE IF command.value.redirection # Nothing
         THEN /\ console' = shown
              /\ IF created
                   THEN /\ files' = command_Redirection_execute(
                                       command.value.redirection[1], out[1], files)
                        /\ run_result' = "ok"
                   ELSE UNCHANGED files /\ run_result' = "err"
       ELSE /\ console' = shown \o out[1] /\ UNCHANGED files /\ run_result' = "ok"

\* Command::run on a builtin, command.rs:225-259
RunBuiltin ==
    /\ stage = "run" /\ command.value.kind.tag # "Unknown"
    /\ \E e \in Envs, created \in BOOLEAN :
         LET kind == command.value.kind
             r == run_builtin_command(kind, e, cwd, files)
         IN  /\ env' = EnvRead(kind, e)
             /\ cwd' = r.cwd
             /\ IF r.res = "exit"
                  THEN /\ stage' = "exited" /\ exit_code' = r.code
                       /\ UNCHANGED <<output, run_result, console, files>>
                  ELSE /\ stage' = "done" /\ UNCHANGED exit_code
                       /\ IF r.res = "err"
                            THEN Deliver(Nothing, console \o r.text, created)
                            ELSE Deliver(Some(r.text), console, created)
    /\ UNCHANGED <<input, command, process, tokVars, redirVars, mainVars>>

\* Command::run on an external command, command.rs:225-259
RunUnknown ==
    /\ stage = "run" /\ command.value.kind.tag = "Unknown"
    /\ \E e \in Envs, created \in BOOLEAN :
         \E proc \in Launches(command.value.kind.cmd, e) :
           LET kind == command.value.kind
               r == run_unknown_command(kind.cmd, kind.args, proc)
           IN  /\ env' = EnvRead(kind, e)
               /\ process' = Some(proc)
               /\ IF r.ok
                    THEN Deliver(Some(r.value), console, created)
                    ELSE Deliver(Nothing, console \o r.err, created)
    /\ stage' = "done"
    /\ UNCHANGED <<input, command, cwd, exit_code, tokVars, redirVars, mainVars>>

NextShell ==
    \/ ParseInput
    \/ RunBuiltin
    \/ RunUnknown

SpecShell == InitShell /\ [][NextShell]_vars

(***************************************************************************)
(* SpecCd: the lines "cd <path>" for every path of up to MaxPathLen        *)
(* characters, parsed by parse_input and run by Command::run.              *)
(***************************************************************************)
CdChars == {"~", "/", "h", "a"}

CdLines == {W_cd \o <<SP>> \o path : path \in SeqsUpTo(CdChars, MaxPathLen) \ {<<>>}}

InitCd ==
    /\ input \in CdLines
    /\ command = Err("not parsed")
    /\ stage = "parse"
    /\ output = Nothing /\ run_result = "none"
    /\ env = [path |-> Nothing, home |-> Nothing, cwd_ok |-> TRUE]
    /\ process = Nothing
    /\ cwd = D_root
    /\ exit_code = 0
    /\ console = <<>>
    /\ files = FilesStart
    /\ TokIdle /\ RedirIdle /\ MainIdle

NextCd ==
    \/ ParseInput
    \/ RunBuiltin

SpecCd == InitCd /\ [][NextCd]_vars

(***************************************************************************)
(* main.rs: its own Command, parsed and run by from_str, and the loop.     *)
(***************************************************************************)
\* str::split_whitespace, main.rs:45
RECURSIVE SplitWhitespace(_)
SplitWhitespace(s) ==
    LET t == TrimStart(s)
    IN  IF t = <<>> THEN <<>>
        ELSE IF \A i \in 1..Len(t) : t[i] \notin Whitespace THEN <<t>>
        ELSE LET i == CHOOSE j \in 1..Len(t) :
                          t[j] \in Whitespace /\ \A k \in 1..(j - 1) : t[k] \notin Whitespace
             IN  <<SubSeq(t, 1, i - 1)>> \o SplitWhitespace(SubSeq(t, i + 1, Len(t)))

\* ExecPathLooker::look_path, main.rs:120-134 (the text of find_executable_path)
look_path(env_path, exec_name) == FirstExisting(SplitOn(env_path, ":"), exec_name)

\* the built_ins of main.rs:69
main_built_ins == {W_exit, W_echo, W_type}

Parsed_Exit(code) == [res |-> "ok", tag |-> "Exit", text |-> <<>>, code |-> code]
Parsed_Text(tag, text) == [res |-> "ok", tag |-> tag, text |-> text, code |-> 0]
Parsed_Err(msg) == [res |-> "err", tag |-> "Err", text |-> <<msg>>, code |-> 0]
Parsed_Panic(msg) == [res |-> "panic", tag |-> "Panic", text |-> <<msg>>, code |-> 0]

\* a launch failure passed on with ?, as main.rs:147 does inside the runner
from_str_other_propagates(cmd, proc) ==
    IF ExecRunner_execute(cmd, proc).ok
      THEN Parsed_Text("Executable", ExecRunner_execute(cmd, proc).value)
      ELSE Parsed_Err(ExecRunner_execute(cmd, proc).err[1])

\* the _ arm of from_str, main.rs:93-101
from_str_other(cmd, proc) ==
    IF ExecRunner_execute(cmd, proc).ok
      THEN Parsed_Text("Executable", ExecRunner_execute(cmd, proc).value)
      ELSE Parsed_Text("Unknown", cmd \o <<": command not found\n">>)

\* Command::from_str, main.rs:39-103
main_from_str(s, e, dir, proc) ==
    IF e.path = Nothing THEN Parsed_Err("environment variable not found")
    ELSE
      LET parsed == SplitWhitespace(s)
      IN  IF parsed = <<>> THEN Parsed_Panic("Could not parse arguments")
          ELSE
            LET cmd == Trim(parsed[1])
                rest == Tail(parsed)
            IN  IF cmd = W_exit THEN
                  IF rest = <<>> THEN Parsed_Err("Invalid arguments")
                  ELSE IF ~ParseI32(rest[1]).ok THEN Parsed_Err(ParseI32(rest[1]).err)
                  ELSE Parsed_Exit(ParseI32(rest[1]).value)
                ELSE IF cmd = W_echo
                  THEN Parsed_Text("Echo", JoinWith(rest, <<SP>>) \o <<"\n">>)
                ELSE IF cmd = W_type THEN
                  IF rest = <<>> THEN Parsed_Err("Invalid arguments")
                  ELSE IF rest[1] \in main_built_ins
                    THEN Parsed_Text("Type", rest[1] \o <<" is a shell builtin\n">>)
                  ELSE IF look_path(e.path[1], rest[1]) # Nothing
                    THEN Parsed_Text("Type", rest[1] \o <<" is ">>
                                               \o look_path(e.path[1], rest[1])[1] \o <<"\n">>)
                  ELSE Parsed_Text("Type", rest[1] \o <<": not found\n">>)
                ELSE IF cmd = W_pwd THEN
                  IF ~e.cwd_ok THEN Parsed_Err("No such file or directory (os error 2)")
                  ELSE Parsed_Text("Pwd", dir \o <<"\n">>)
                ELSE from_str_other(cmd, proc)

\* the command name of a line, for the process main.rs:94 may launch
MainCommandName(s) ==
    IF SplitWhitespace(s) = <<>> THEN <<>> ELSE Trim(SplitWhitespace(s)[1])

RunsProcess(s) ==
    MainCommandName(s) \notin {<<>>, W_exit, W_echo, W_type, W_pwd}

\* the environment values from_str reads for the line s
MainEnvRead(s, e) ==
    [path |-> e.path, home |-> Nothing,
     cwd_ok |-> IF MainCommandName(s) = W_pwd THEN e.cwd_ok ELSE TRUE]

(***************************************************************************)
(* SpecMain: main on every standard input of up to MaxLines lines.         *)
(***************************************************************************)
Line(ws) == JoinWith(ws, <<SP>>)

MainLines ==
    { <<>>,
      Line(<<W_exit, W_2>>), Line(<<W_exit, W_f>>), Line(<<W_exit>>),
      Line(<<W_type>>), Line(<<W_type, W_echo>>), Line(<<W_type, W_ls>>),
      Line(<<W_type, W_zz>>), Line(<<W_echo, W_f>>), Line(<<W_echo, W_gt>>),
      Line(<<W_pwd>>), Line(<<W_cd>>), Line(<<W_ls, W_f>>), Line(<<W_zz>>),
      <<SP>> \o W_echo \o <<SP, SP>> \o W_f \o <<SP>> }

InitMain ==
    /\ stdin \in SeqsUpTo(MainLines, MaxLines)
    /\ at_eof = FALSE
    /\ pc = "prompt"
    /\ console = <<>>
    /\ input = <<>>
    /\ env = [path |-> Nothing, home |-> Nothing, cwd_ok |-> TRUE]
    /\ process = Nothing
    /\ cwd = D_root
    /\ exit_code = 0
    /\ command = Err("idle") /\ stage = "idle" /\ output = Nothing /\ run_result = "none"
    /\ TokIdle /\ FilesIdle /\ RedirIdle

\* Prompter::prompt, main.rs:171-176
Prompt(text) == console' = console \o text

\* main.rs:11
MainPrompt ==
    /\ pc = "prompt"
    /\ Prompt(<<"$ ">>)
    /\ pc' = "read"
    /\ UNCHANGED <<stdin, at_eof, input, env, process, cwd, exit_code>>
    /\ UNCHANGED <<command, stage, output, run_result, tokVars, files, redirVars>>

\* Prompter::read, main.rs:164-169, called at main.rs:13: read_line gives the
\* next line with its newline, or nothing at the end of the input
MainRead ==
    /\ pc = "read"
    /\ IF stdin = <<>>
         THEN input' = Trim(<<>>) /\ at_eof' = TRUE /\ UNCHANGED stdin
         ELSE /\ input' = Trim(Head(stdin) \o <<"\n">>)
              /\ stdin' = Tail(stdin)
              /\ UNCHANGED at_eof
    /\ pc' = "eval"
    /\ UNCHANGED <<console, env, process, cwd, exit_code>>
    /\ UNCHANGED <<command, stage, output, run_result, tokVars, files, redirVars>>

\* main.rs:15-22: the line is parsed and run by from_str; its error leaves
\* main through the ? operator, its Exit ends the process, any other Command
\* is written to the console
MainEval ==
    /\ pc = "eval"
    /\ \E e \in Envs :
         \E proc \in Launches(MainCommandName(input), e) :
           LET r == main_from_str(input, e, cwd, proc)
           IN  /\ env' = MainEnvRead(input, e)
               /\ process' = IF e.path # Nothing /\ RunsProcess(input)
                               THEN Some(proc) ELSE Nothing
               /\ IF r.res = "panic"
                    THEN pc' = "panicked" /\ UNCHANGED <<console, exit_code>>
                  ELSE IF r.res = "err"
                    THEN pc' = "failed" /\ UNCHANGED <<console, exit_code>>
                  ELSE IF r.tag = "Exit"
                    THEN pc' = "exited" /\ exit_code' = r.code /\ UNCHANGED console
                  ELSE pc' = "prompt" /\ Prompt(r.text) /\ UNCHANGED exit_code
    /\ UNCHANGED <<stdin, at_eof, input, cwd>>
    /\ UNCHANGED <<command, stage, output, run_result, tokVars, files, redirVars>>

NextMain ==
    \/ MainPrompt
    \/ MainRead
    \/ MainEval

SpecMain == InitMain /\ [][NextMain]_vars

(***************************************************************************)
(* What the claims about the tokenizer compare parse_args with.            *)
(***************************************************************************)
\* the number of backslashes that stand immediately before position i
RECURSIVE BackslashRun(_, _)
BackslashRun(s, i) ==
    IF i > 1 /\ s[i - 1] = BS THEN 1 + BackslashRun(s, i - 1) ELSE 0

\* current_char is escaped: escape pairs are taken left to right, and no arm
\* changes a quote flag on a backslash, so the whole run was scanned in the
\* quote mode of the current state
Escaped == BackslashRun(args, index) % 2 = 1

Unquoted == ~inside_single_quotes /\ ~inside_double_quotes

\* the characters a backslash escapes inside double quotes
DqEscapable == {DQ, DOLLAR, BS}

\* the text of the body of a double-quoted string, escape pairs taken left to right
RECURSIVE DqUnescape(_)
DqUnescape(s) ==
    IF s = <<>> THEN <<>>
    ELSE IF Head(s) = BS /\ Len(s) >= 2 /\ s[2] \in DqEscapable
           THEN <<s[2]>> \o DqUnescape(SubSeq(s, 3, Len(s)))
           ELSE <<Head(s)>> \o DqUnescape(Tail(s))

\* s is the whole body of a double-quoted string: it holds no unescaped double
\* quote and does not end in a backslash that would escape the closing quote
RECURSIVE DqBody(_)
DqBody(s) ==
    IF s = <<>> THEN TRUE
    ELSE IF Head(s) = BS
           THEN /\ Len(s) >= 2
                /\ IF s[2] \in DqEscapable
                     THEN DqBody(SubSeq(s, 3, Len(s)))
                     ELSE DqBody(Tail(s))
           ELSE Head(s) # DQ /\ DqBody(Tail(s))

\* the line is one double-quoted string and nothing else
DqLine ==
    /\ Len(args) >= 2
    /\ args[1] = DQ
    /\ args[Len(args)] = DQ
    /\ DqBody(SubSeq(args, 2, Len(args) - 1))

\* C1: inside double quotes a backslash before a double quote, a dollar or a
\* backslash is dropped and the character it escapes is copied, pairs being
\* taken left to right; any other backslash is copied.  Stated on the lines
\* that are one double-quoted string: parse_args returns exactly one token,
\* the body of the string with its escape pairs resolved.
C1_DoubleQuoteEscapes ==
    (returned /\ DqLine)
        => parsed_args = <<DqUnescape(SubSeq(args, 2, Len(args) - 1))>>

\* C2: outside quotes a backslash is not copied and escapes exactly the next
\* character, which is copied as ordinary text: no quote flag changes, no
\* token is split, and an escaped backslash escapes nothing.
C2_UnquotedBackslash ==
    [][(InLoop /\ Unquoted) =>
         IF Escaped
           THEN /\ current_arg' = Append(current_arg, current_char)
                /\ UNCHANGED <<parsed_args, inside_single_quotes, inside_double_quotes>>
           ELSE current_char = BS =>
                  UNCHANGED <<current_arg, parsed_args,
                              inside_single_quotes, inside_double_quotes>>]_vars

\* C3: a single quote that no backslash precedes, met outside double quotes,
\* starts single-quote mode; in that mode every character but the single quote
\* is copied, the next single quote ends the mode, and the quotes themselves
\* are not copied.
C3_SingleQuotes ==
    [][/\ (InLoop /\ Unquoted /\ current_char = SQ /\ prev_char # BS)
            => (inside_single_quotes' /\ UNCHANGED <<current_arg, parsed_args>>)
       /\ (InLoop /\ inside_single_quotes /\ ~inside_double_quotes)
            => IF current_char = SQ
                 THEN ~inside_single_quotes' /\ UNCHANGED <<current_arg, parsed_args>>
                 ELSE /\ current_arg' = Append(current_arg, current_char)
                      /\ UNCHANGED <<parsed_args, inside_single_quotes>>]_vars

\* the line is made of non-empty words without quotes or backslashes, one
\* space between two words
PlainWords(s) ==
    /\ s # <<>>
    /\ \A i \in 1..Len(s) : s[i] \notin {SQ, BS, DQ}
    /\ s[1] # SP /\ s[Len(s)] # SP
    /\ \A i \in 1..(Len(s) - 1) : ~(s[i] = SP /\ s[i + 1] = SP)

\* the words of s: its maximal pieces that hold no space
RECURSIVE Words(_)
Words(s) ==
    IF \A i \in 1..Len(s) : s[i] # SP THEN <<s>>
    ELSE LET i == CHOOSE j \in 1..Len(s) :
                      s[j] = SP /\ \A k \in 1..(j - 1) : s[k] # SP
         IN  <<SubSeq(s, 1, i - 1)>> \o Words(SubSeq(s, i + 1, Len(s)))

\* C4: of a line of plain words separated by one space, parse_args returns
\* exactly the words, in order.
C4_PlainWords ==
    (returned /\ PlainWords(args)) => parsed_args = Words(args)

\* three words, not all the same, have been returned
C4_Witness ==
    /\ returned /\ PlainWords(args)
    /\ Len(parsed_args) = 3
    /\ parsed_args[1] # parsed_args[2]

(***************************************************************************)
(* What the claims about Redirection compare the code with.                *)
(***************************************************************************)
RedirectionMade == redirection # Err("not made") /\ redirection # Err("idle")

\* the stream and mode each operator stands for
OperatorMeaning(op) ==
    CASE op = W_gt -> Source("Stdout", "Override")
      [] op = W_1gt -> Source("Stdout", "Override")
      [] op = W_gtgt -> Source("Stdout", "Append")
      [] op = W_1gtgt -> Source("Stdout", "Append")
      [] op = W_2gt -> Source("Stderr", "Override")
      [] op = W_2gtgt -> Source("Stderr", "Append")

SixOperators == {W_gt, W_1gt, W_gtgt, W_1gtgt, W_2gt, W_2gtgt}

\* C6: Redirection::new gives > and 1> Stdout/Override, >> and 1>> Stdout/Append,
\* 2> Stderr/Override, 2>> Stderr/Append, and makes no Redirection of a first
\* word that is none of the six.
C6_OperatorTable ==
    RedirectionMade =>
      LET a == redirection_args
      IN  IF Len(a) >= 1 /\ a[1] \in SixOperators
            THEN /\ Len(a) >= 2 => redirection.ok
                 /\ redirection.ok => redirection.source = OperatorMeaning(a[1])
            ELSE ~redirection.ok

\* 2>> has made a Redirection of the standard error, appending
C6_Witness ==
    /\ RedirectionMade /\ redirection.ok
    /\ redirection_args[1] = W_2gtgt
    /\ redirection.source = Source("Stderr", "Append")

\* C7: a run that succeeds leaves the target holding the text of the named
\* stream alone when the mode is Override, and what it held followed by that
\* text when the mode is Append; a missing target is created; no other file
\* changes.  Holding at every run, it holds of every sequence of runs.
C7_RunWritesFile ==
    [][(runs' = runs + 1 /\ last_run' = "ok") =>
         LET t == redirection.target
             text == UnwrapOrEmpty(IF redirection.source.stream = "Stdout"
                                     THEN command_output'.stdout
                                     ELSE command_output'.stderr)
             held == IF files[t].exists THEN files[t].content ELSE <<>>
         IN  /\ files'[t].exists
             /\ files'[t].content = IF redirection.source.mode = "Override"
                                      THEN text ELSE held \o text
             /\ \A p \in Paths \ {t} : files'[p] = files[p]]_vars

\* a second appending run has put its text behind the text of the first, in a
\* file that held "p" before
C7_Witness ==
    /\ redirection.ok /\ runs = 2 /\ last_run = "ok"
    /\ redirection.source = Source("Stderr", "Append")
    /\ redirection.target = W_f
    /\ files[W_f] = FileOf(<<"p", "e", "e">>)

(***************************************************************************)
(* What the claims about parse_input and Command::run compare the code     *)
(* with.                                                                   *)
(***************************************************************************)
\* the position of the first of the six operators among the words a, 0 if none
FirstOperator(a) ==
    IF \E i \in 1..Len(a) : a[i] \in SixOperators
      THEN CHOOSE i \in 1..Len(a) :
             a[i] \in SixOperators /\ \A j \in 1..(i - 1) : a[j] \notin SixOperators
      ELSE 0

Parsed == stage \in {"run", "done", "exited"}

\* C5: parse_input splits the words at the first of the six operators: the
\* Command it returns, builtin or external, is the one the words before the
\* operator make, and carries a redirection whose target is the word after
\* the operator.
C5_SplitAtOperator ==
    (Parsed /\ command.ok) =>
      LET a == parse_args(input)
          i == FirstOperator(a)
      IN  (i # 0 /\ CommandKind_new(SubSeq(a, 1, i - 1)).ok /\ i + 1 <= Len(a)) =>
            /\ command.value.kind = CommandKind_new(SubSeq(a, 1, i - 1)).value
            /\ command.value.redirection # Nothing
            /\ command.value.redirection[1].target = a[i + 1]

\* the stdout and stderr text of the result of the command that was run: an
\* external command's are the streams of its process as
\* ExecutableRunner::execute keeps them apart; of the builtins' texts,
\* "<target>: not found" and "cd: <path>: No such file or directory" are
\* stderr text and every other text is stdout text
ResultStreams ==
    LET kind == command.value.kind
        text == output[1]
    IN  IF kind.tag = "Unknown" THEN ExecutableRunner_execute(kind.cmd, process[1])
        ELSE IF text = <<>> THEN [stdout |-> Nothing, stderr |-> Nothing]
        ELSE IF kind.tag = "TypeUnknown" /\ text[Len(text)] = ": not found\n"
          THEN [stdout |-> Nothing, stderr |-> Some(text)]
        ELSE IF kind.tag = "Cd" /\ text[Len(text)] = ": No such file or directory\n"
          THEN [stdout |-> Nothing, stderr |-> Some(text)]
        ELSE [stdout |-> Some(text), stderr |-> Nothing]

\* Command::run has returned Ok(()) after the command produced its result
RanWithResult ==
    stage = "done" /\ command.ok /\ output # Nothing /\ run_result = "ok"

\* C8: a command run with a redirection leaves in the target file exactly the
\* text of the stream the redirection names, and on the console the text of
\* the other stream, if any: stderr text under a stdout redirection reaches
\* the console and not the file.
C8_SplitDelivery ==
    (RanWithResult /\ command.value.redirection # Nothing) =>
      LET r == command.value.redirection[1]
          named == IF r.source.stream = "Stdout"
                     THEN ResultStreams.stdout ELSE ResultStreams.stderr
          other == IF r.source.stream = "Stdout"
                     THEN ResultStreams.stderr ELSE ResultStreams.stdout
          held == IF r.source.mode = "Append" /\ FilesStart[r.target].exists
                    THEN FilesStart[r.target].content ELSE <<>>
      IN  /\ files[r.target] = FileOf(held \o UnwrapOrEmpty(named))
          /\ console = UnwrapOrEmpty(other)

\* C9: a command run without a redirection leaves on the console the stderr
\* text of its result if there is one, else the stdout text if there is one,
\* else nothing, and leaves every file as it was.
C9_ConsoleDelivery ==
    (RanWithResult /\ command.value.redirection = Nothing) =>
      /\ console = IF ResultStreams.stderr # Nothing THEN ResultStreams.stderr[1]
                   ELSE UnwrapOrEmpty(ResultStreams.stdout)
      /\ files = FilesStart

(***************************************************************************)
(* What the claim about the read-eval loop compares main with.             *)
(***************************************************************************)
\* C10: no input line stops the loop: with PATH set and the working
\* directory in place, main ends by exit or at the end of the input only,
\* and never by an error or a panic over a line it has read.
C10_LoopSurvivesLines ==
    (pc \in {"failed", "panicked"} /\ env.path # Nothing /\ env.cwd_ok) => at_eof

(***************************************************************************)
(* What the claims about single commands compare the code with.            *)
(***************************************************************************)
NotFoundText(name) == name \o <<": command not found\n">>

\* C11: an external command that cannot be launched ends its line with the
\* text "<name>: command not found\n" and nothing else, and returns normally:
\* the runner of executable.rs gives it as the stderr text with no stdout
\* text, and the loop of main.rs shows it and goes on to the next prompt.
C11_LaunchFailure ==
    [][(pc = "eval" /\ process' = Some(NotLaunched)) =>
         LET name == MainCommandName(input)
         IN  /\ ExecutableRunner_execute(name, NotLaunched)
                   = [stdout |-> Nothing, stderr |-> Some(NotFoundText(name))]
             /\ pc' = "prompt"
             /\ console' = console \o NotFoundText(name)
             /\ exit_code' = exit_code]_vars

\* zz, which no directory of PATH holds, was the second line: its text is
\* on the console and the loop is at the prompt again
C11_Witness ==
    /\ pc = "prompt" /\ stdin = <<>> /\ ~at_eof
    /\ input = W_zz
    /\ process = Some(NotLaunched)
    /\ Len(console) > 3
    /\ SubSeq(console, Len(console) - 2, Len(console)) = NotFoundText(W_zz)

\* the builtin registry
Registry == {W_exit, W_echo, W_type, W_pwd, W_cd}

\* C12: type <name> yields "<name> is a shell builtin\n" for every name of
\* the registry {exit, echo, type, pwd, cd}, without consulting PATH; for any
\* other target the locator decides between "<target> is <path>\n" and
\* "<target>: not found\n".
C12_TypeRegistry ==
    (stage = "done" /\ command.ok
       /\ command.value.kind.tag \in {"TypeWellKnown", "TypeUnknown"}) =>
      LET t == command.value.kind.cmd
      IN  IF t \in Registry
            THEN /\ command.value.kind.tag = "TypeWellKnown"
                 /\ output = Some(t \o <<" is a shell builtin\n">>)
            ELSE env.path # Nothing =>
                   output = Some(IF find_executable_path(env.path[1], t) # Nothing
                                   THEN t \o <<" is ">>
                                          \o find_executable_path(env.path[1], t)[1]
                                          \o <<"\n">>
                                   ELSE t \o <<": not found\n">>)

NoOperator(a) == \A i \in 1..Len(a) : a[i] \notin RedirectionOps

\* C13: tokens that start with exit resolve to Exit(code) only when exactly
\* one more token follows and it is a signed integer; with no argument, more
\* than one, or a non-integer, resolution fails and there is no Exit command.
C13_ExitOneInteger ==
    LET a == parse_args(input)
    IN  (stage # "parse" /\ a[1] = W_exit /\ NoOperator(a)) =>
          IF Len(a) = 2 /\ ParseI32(a[2]).ok
            THEN command.ok /\ command.value.kind = Builtin_Exit(ParseI32(a[2]).value)
            ELSE ~command.ok

\* C14: when the first redirection operator of the line is its last token,
\* building the Command fails: nothing is run, shown, or written to a file.
C14_TargetRequired ==
    LET a == parse_args(input)
    IN  (stage # "parse" /\ FirstOperator(a) # 0 /\ FirstOperator(a) = Len(a)) =>
          /\ ~command.ok
          /\ stage = "done"
          /\ output = Nothing
          /\ files = FilesStart

\* the home directory put in place of a leading ~, and of no other
LeadingTilde(path, home) ==
    IF path # <<>> /\ Head(path) = "~" THEN home \o Tail(path) ELSE path

\* C15: Cd(path) puts the home directory in place of a leading ~ of path and
\* of nothing else, then changes the working directory to the result: when it
\* is not found the text is "cd: <path>: No such file or directory\n" and the
\* directory stays, and on success there is no output.
C15_CdLeadingTilde ==
    (stage = "done" /\ command.ok /\ command.value.kind.tag = "Cd"
       /\ env.home # Nothing) =>
      LET path == LeadingTilde(command.value.kind.path, env.home[1])
          kind == PathKind(path, D_root, FilesStart)
      IN  /\ kind = "directory" =>
                /\ output = Some(<<>>) /\ console = <<>>
                /\ cwd = CdTarget(path, D_root)
          /\ kind = "missing" =>
                /\ output = Some(<<"cd: ">> \o path \o <<": No such file or directory\n">>)
                /\ cwd = D_root

(***************************************************************************)
(* What the claims about the shape of the tokenizer's result say.          *)
(***************************************************************************)
\* C16: a space ends the current token only when that token is not empty, so
\* no token of the result other than the last one is the empty string.
C16_NoEmptyTokens ==
    [][/\ \A i \in 1..Len(parsed_args') :
            parsed_args'[i] = <<>> => (returned' /\ i = Len(parsed_args'))
       /\ (InLoop /\ current_char = SP /\ parsed_args' # parsed_args) =>
            /\ current_arg # <<>>
            /\ parsed_args' = Append(parsed_args, current_arg)
            /\ current_arg' = <<>>]_vars

\* two words with a run of two spaces between them have been returned as two
\* tokens
C16_Witness ==
    /\ returned
    /\ args = <<"a", SP, SP, "a">>
    /\ parsed_args = << <<"a">>, <<"a">> >>

OnlySpaces(s) == \A i \in 1..Len(s) : s[i] = SP

\* the text after an opening quote that is never closed
OpenSingle(s) ==
    /\ s # <<>> /\ s[1] = SQ
    /\ \A i \in 2..Len(s) : s[i] # SQ

OpenDouble(s) ==
    /\ s # <<>> /\ s[1] = DQ
    /\ \A i \in 2..Len(s) : s[i] \notin {DQ, BS}

C18_QuoteFlagsExclusive ==
    [][/\ ~(inside_single_quotes' /\ inside_double_quotes')
       /\ (InLoop /\ current_char = SQ /\ inside_double_quotes) =>
            /\ current_arg' = Append(current_arg, SQ)
            /\ inside_double_quotes' /\ ~inside_single_quotes'
       /\ (InLoop /\ current_char = DQ /\ inside_single_quotes) =>
            /\ current_arg' = Append(current_arg, DQ)
            /\ inside_single_quotes' /\ ~inside_double_quotes']_vars

\* in single-quote mode a " has been copied and the mode has stayed
C18_Witness ==
    /\ ~returned
    /\ args = <<SQ, DQ, "a", SQ>>
    /\ index = 3
    /\ current_arg = <<DQ>>
    /\ inside_single_quotes /\ ~inside_double_quotes

(***************************************************************************)
(* What the claim about a run on an absent stream says.                    *)
(***************************************************************************)
\* C19: a run whose named stream is None still opens the target: in Override
\* mode the file is created or truncated to empty, in Append mode it is
\* created if missing and keeps what it held; the text of the other stream
\* is not written to it.
C19_AbsentStreamStillOpens ==
    [][(runs' = runs + 1 /\ last_run' = "ok"
          /\ NamedStream(redirection, command_output') = Nothing) =>
         LET t == redirection.target
         IN  /\ files'[t].exists
             /\ redirection.source.mode = "Override" => files'[t].content = <<>>
             /\ redirection.source.mode = "Append" =>
                  files'[t].content = IF files[t].exists THEN files[t].content
                                      ELSE <<>>]_vars

\* 2> f was run on an output with stdout text and no stderr text: f is there
\* and empty
C19_Witness ==
    /\ redirection.ok /\ runs = 1 /\ last_run = "ok"
    /\ redirection.source = Source("Stderr", "Override")
    /\ redirection.target = W_f
    /\ command_output.stderr = Nothing /\ command_output.stdout # Nothing
    /\ files[W_f] = FileOf(<<>>)

====
